---- MODULE Spec2Model ----
(***************************************************************************)
(* Model of the Valeport VA500 altimeter driver (src/src/altimeter.py):    *)
(* the message registries (class Message, also in src/src/Messages.py),    *)
(* the packet codec (Reply.parse, Command.serialize), the transport        *)
(* session (Socket.send, Socket.get_reply), the driver (VA500.open, scan,  *)
(* get, preempt, close) and its scoped use in a with statement.            *)
(*                                                                         *)
(* Bytes are naturals; a bitstream, a frame, a line and the serial input   *)
(* buffer are sequences of bytes.  All bitstreams the driver handles are   *)
(* byte aligned.                                                           *)
(*                                                                         *)
(* The file is Python 2.  Lines 333 (while) and 387 (else) lack their      *)
(* colon; the model follows the control flow their indentation gives.      *)
(* `except PacketCorrupted, serial.SerialException:` (line 389) is Python  *)
(* 2 for `except PacketCorrupted as <name>`: it catches PacketCorrupted    *)
(* only.  The port is opened without a timeout (line 197), so read() and   *)
(* readline() block until the bytes they wait for have arrived.            *)
(***************************************************************************)
EXTENDS Integers, Sequences, FiniteSets, TLC

\* ------------------------------------------------------------------------
\* Wire constants
\* ------------------------------------------------------------------------
\* 0x23 '#', the header marker (Reply.parse line 135, serialize line 180)
HEADER == 35
\* 0x3B ';', the separator of the serial format (line 180)
SEP == 59
\* 0x0D and 0x0A, the two bytes of the terminator 0x0D0A (line 180)
CR == 13
LF == 10
\* some byte with no meaning to the codec, standing for measurement data
DATA == CHOOSE b \in 0..255 : b \notin {HEADER, SEP, CR, LF}

\* Message identifiers of the registry in altimeter.py used by the model
SW_VERSION == 32
UNIT_SERIAL_NUM == 34
TRANSDUCER_FREQ == 839
\* SINGLE_MEASURE = 'S': the byte value of the character
SINGLE_MEASURE == 83

\* Python's None, where the code holds an integer otherwise
None == -1

\* scan(): MAX_TIMEOUT_COUNT
MAX_TIMEOUT_COUNT == 5
\* scan(): self.get(None, wait = 1)
ScanWait == 1
\* get(): the default of wait
DefaultWait == 2

\* ------------------------------------------------------------------------
\* Bounds of the model
\* ------------------------------------------------------------------------
\* longest buffer handed to Reply.parse directly
MaxBuf == 3
\* longest payload of a command in the codec checks
MaxPayload == 2
\* longest garbage run ahead of the frames in the resynchronisation check
MaxGarbage == 2
\* longest payload of the two frames of the resynchronisation check
MaxFramePayload == 1
\* the clock is followed this far when no deadline is pending
MaxTime == 2
\* chunks of bytes the device sends in one run
MaxChunks == 2
\* operations the host starts in one run
MaxCalls == 2

ByteValues == {HEADER, SEP, CR, LF, DATA}

RECURSIVE SeqsUpTo(_, _)
\* all sequences over S of length at most n
SeqsUpTo(S, n) ==
    IF n = 0 THEN {<<>>}
    ELSE LET shorter == SeqsUpTo(S, n - 1)
         IN  shorter \cup {Append(s, b) : s \in {t \in shorter : Len(t) = n - 1}, b \in S}

\* b holds the terminator sequence CR LF somewhere
HasTerminator(b) == \E i \in 1..(Len(b) - 1) : b[i] = CR /\ b[i + 1] = LF

Buffers == SeqsUpTo(ByteValues, MaxBuf)
Payloads == {p \in SeqsUpTo(ByteValues, MaxPayload) : ~HasTerminator(p)}
CommandIds == {SW_VERSION, UNIT_SERIAL_NUM}

VARIABLES
    \* --- codec checks
    cmd,          \* the Command under test
    cut,          \* length of the prefix of the frame that is parsed
    frame,        \* bytes returned by Command.serialize
    bitstream,    \* the buffer last handed to Reply(...)
    parsed,       \* outcome of Reply(bitstream)
    parsedFrame,  \* outcome of Reply(frame)
    request,      \* the arguments of Command(...): id, whether it is a str, payload
    \* --- resynchronisation check
    garbage,      \* bytes ahead of the first frame
    frame1,       \* first frame of the stream
    frame2,       \* second frame of the stream
    returned,     \* outcomes of the successive get_reply calls
    \* --- transport (serial.Serial) and environment
    wire,         \* bytes received from the device and not yet read
    sent,         \* messages written to the device, in order
    fault,        \* the port fails: every read and write raises SerialException
    chunks,       \* chunks the device has sent
    now,          \* datetime.datetime.now()
    shutdown,     \* rospy.is_shutdown()
    eof,          \* the stream has ended: the device sends nothing more
    \* --- VA500 object
    conn,         \* self.conn: "None", "open" or, after close(), "closed"
    initialized,  \* self.initialized
    preempted,    \* self.preempted
    \* --- the thread running open / scan / get / get_reply
    op,           \* operation the host called: "none", "open", "scan", "get", "get_reply"
    pc,           \* position inside it
    message,      \* get: the expected id, or None
    end,          \* get: the deadline
    wait,         \* get: seconds to wait
    timeout_count,\* scan: consecutive timeouts
    packet,       \* get_reply: the accumulated packet
    reply,        \* get_reply: the Reply it returns
    exc,          \* exception that left the last operation, "none" if it returned
    result,       \* the Reply the last operation returned, if any
    data,         \* scan: the payload of the last reply
    calls,        \* operations started by the host
    \* --- the host
    scope,        \* position in `with VA500(...) as va500_altimeter:`
    \* --- history
    handshakeDone,    \* some open() has returned normally
    preemptRequested, \* preempt() was called during the scan() in progress
    resends,          \* commands written by the resend branch of scan()
    obtained,         \* payloads of the replies scan() has obtained
    published,        \* payloads scan() has handed to its caller
    discarded,        \* replies get() has dropped for their id
    \* --- registry checks
    registry,     \* the Message class under test: "altimeter" or "Messages"
    lookupName,   \* the name given to from_string
    lookupId,     \* the id given to to_string
    fromResult,   \* outcome of from_string(lookupName)
    toResult      \* outcome of to_string(lookupId)

codecVars == <<cmd, cut, frame, bitstream, parsed, parsedFrame, request>>
socketVars == <<garbage, frame1, frame2, returned>>
envVars == <<wire, sent, fault, chunks, now, shutdown, eof>>
objVars == <<conn, initialized, preempted>>
threadVars == <<op, pc, message, wait, end, timeout_count, packet, reply, exc, result, data, calls>>
histVars == <<handshakeDone, preemptRequested, resends, obtained, published, discarded>>
hostVars == <<scope>>
registryVars == <<registry, lookupName, lookupId, fromResult, toResult>>
vars == <<codecVars, socketVars, envVars, objVars, threadVars, histVars, hostVars,
          registryVars>>

\* ------------------------------------------------------------------------
\* Packet codec
\* ------------------------------------------------------------------------
\* bitstream.endswith("\n")
EndsWithNewline(b) == Len(b) >= 1 /\ b[Len(b)] = LF

\* An exception leaving Reply.__init__: no Reply object exists
Raised(e, b) == [status |-> e, bitstream |-> b, id |-> 0, payload |-> None]

\* nothing parsed yet
NoReply == Raised("none", <<>>)

\* Reply.parse with the header test left out
ReplyParse_NoHeaderCheck(b) ==
    IF ~EndsWithNewline(b) THEN Raised("PacketIncomplete", b)
    ELSE IF Len(b) < 3 THEN Raised("ReadError", b)
    ELSE [status |-> "Ok", bitstream |-> b, id |-> b[2], payload |-> b[3]]

\* Reply(bitstream): __init__ then parse.  The outcome is the Reply (status
\* "Ok") or the exception that leaves the constructor.  read("uint:8") past
\* the end of the bitstream raises bitstring's ReadError, an IndexError that
\* the `except ValueError` clause does not turn into PacketCorrupted.
ReplyParse(b) ==
    IF ~EndsWithNewline(b) THEN Raised("PacketIncomplete", b)
    ELSE IF b[1] # HEADER THEN Raised("PacketCorrupted", b)
    ELSE IF Len(b) < 3 THEN Raised("ReadError", b)
    ELSE [status |-> "Ok", bitstream |-> b, id |-> b[2], payload |-> b[3]]

\* Command(id, payload) for an integer id: payload defaults to the empty
\* BitStream
CommandInit(id, payload) == [id |-> id, payload |-> payload]

\* int(binascii.hexlify(c), 8) for the one-character str with byte value c:
\* the two hexadecimal digits of c read as an octal number ('S' is "53",
\* that is 43).  A digit above 7 ('M' is "4d") raises ValueError; the driver
\* sends no such id.
HexlifyOctal(c) == (c \div 16) * 8 + (c % 16)

\* Command(id, payload) for a str id, line 162: the id becomes
\* bin(int(binascii.hexlify(id), 8)), the binary digits of that number, which
\* serialize packs in the place of the id
CommandInitStr(c, payload) == [id |-> HexlifyOctal(c), payload |-> payload]

\* Command.serialize: "0x23, id, 0x3B, bits:payload_length=payload, 0x0D0A"
\* with the id as one raw byte
CommandSerialize(c) == <<HEADER, c.id, SEP>> \o c.payload \o <<CR, LF>>

Commands == {CommandInit(i, p) : i \in CommandIds, p \in Payloads}

\* no Command(...) call under test
NoRequest == [id |-> None, str |-> FALSE, payload |-> <<>>]


\* ------------------------------------------------------------------------
\* Message registries
\* ------------------------------------------------------------------------
\* Python values: an int, a str, None
PyInt(n) == <<"int", n>>
PyStr(c) == <<"str", c>>
PyNone == <<"None">>

\* class Message of altimeter.py: its symbolic names and their values
AltimeterMessage ==
    [ SW_VERSION |-> PyInt(32), UNIT_SERIAL_NUM |-> PyInt(34), PCB_SERIAL_NUM |-> PyInt(136),
      CALIBRATION_DATE |-> PyInt(138), TRANSDUCER_FREQ |-> PyInt(839),
      BAUD_RATE |-> PyInt(59), SET_ADDRESS_485 |-> PyInt(1), ADDRESS_485 |-> PyInt(2),
      ADDRESS_MODE_CONF |-> PyInt(5), ADDRESS_MODE |-> PyInt(6),
      SET_VOLTAGE_RANGE |-> PyInt(94), VOLTAGE_RANGE |-> PyInt(95),
      ANALOG_OUTPUT_TEST |-> PyInt(96), SET_ANALOG_RANGE_LIMIT |-> PyInt(97),
      ANALOG_RANGE_LIMIT |-> PyInt(98),
      SINGLE_MEASURE |-> PyStr("S"), MEASURE |-> PyStr("M"), SET_MEASURE_MODE |-> PyInt(39),
      OPERATING_MODE |-> PyInt(40), RUN |-> PyInt(28),
      OUTPUT_FORMAT |-> PyInt(89), SET_OUTPUT_FORMAT |-> PyInt(82),
      SET_RANGE_UNITS |-> PyInt(21), RANGE_UNITS |-> PyInt(22), SET_ERROR_MSG |-> PyInt(118),
      ERROR_MSG |-> PyInt(119), MAX_RANGE |-> PyInt(823), MINIMUM_RANGE |-> PyInt(841),
      CHANGE_SOUND_SPEED |-> PyInt(830), SOUND_SPEED |-> PyInt(831) ]

\* the three ASCII digits d1 d2 d3 as one number, 0x3d1 3d2 3d3 in Messages.py
Ascii3(d1, d2, d3) == ((48 + d1) * 256 + (48 + d2)) * 256 + (48 + d3)

\* class Message of Messages.py.  OUTPUT_FORMAT is written 0x303238, the
\* digits 028 of RUN, although its comment says 089.
MessagesMessage ==
    [ CONFIGURATION_PARAM |-> PyInt(0),
      SW_VERSION |-> PyInt(Ascii3(0, 3, 2)), UNIT_SERIAL_NUM |-> PyInt(Ascii3(0, 3, 4)),
      PCB_SERIAL_NUM |-> PyInt(Ascii3(1, 3, 6)), CALIBRATION_DATE |-> PyInt(Ascii3(1, 3, 8)),
      TRANSDUCER_FREQ |-> PyInt(Ascii3(8, 3, 9)),
      BAUD_RATE |-> PyInt(Ascii3(0, 5, 9)), SET_ADDRESS_485 |-> PyInt(Ascii3(0, 0, 1)),
      ADDRESS_485 |-> PyInt(Ascii3(0, 0, 2)), ADDRESS_MODE_CONF |-> PyInt(Ascii3(0, 0, 5)),
      ADDRESS_MODE |-> PyInt(Ascii3(0, 0, 6)),
      SET_VOLTAGE_RANGE |-> PyInt(Ascii3(0, 9, 4)), VOLTAGE_RANGE |-> PyInt(Ascii3(0, 9, 5)),
      ANALOG_OUTPUT_TEST |-> PyInt(Ascii3(0, 9, 6)),
      SET_ANALOG_RANGE_LIMIT |-> PyInt(Ascii3(0, 9, 7)),
      ANALOG_RANGE_LIMIT |-> PyInt(Ascii3(0, 9, 8)),
      SINGLE_MEASURE |-> PyInt(83), DATA |-> PyStr("$"), MEASURE |-> PyInt(77),
      CONFIGURE |-> PyInt(35), READY_2_CONFIGURE |-> PyStr(">"),
      SET_MEASURE_MODE |-> PyInt(Ascii3(0, 3, 9)), OPERATING_MODE |-> PyInt(Ascii3(0, 4, 0)),
      RUN |-> PyInt(Ascii3(0, 2, 8)),
      OUTPUT_FORMAT |-> PyInt(Ascii3(0, 2, 8)), SET_OUTPUT_FORMAT |-> PyInt(Ascii3(0, 8, 2)),
      SET_RANGE_UNITS |-> PyInt(Ascii3(0, 2, 1)), RANGE_UNITS |-> PyInt(Ascii3(0, 2, 2)),
      SET_ERROR_MSG |-> PyInt(Ascii3(1, 1, 8)), ERROR_MSG |-> PyInt(Ascii3(1, 1, 9)),
      MAX_RANGE |-> PyInt(Ascii3(8, 2, 4)), MINIMUM_RANGE |-> PyInt(Ascii3(8, 4, 1)),
      CHANGE_SOUND_SPEED |-> PyInt(Ascii3(8, 3, 0)), SOUND_SPEED |-> PyInt(Ascii3(8, 3, 1)) ]

Registries == {"altimeter", "Messages"}
\* the symbolic names of class Message in file r, with their values
Table(r) == IF r = "altimeter" THEN AltimeterMessage ELSE MessagesMessage
Names(r) == DOMAIN Table(r)
Values(r) == {Table(r)[n] : n \in Names(r)}

\* the outcome of a lookup: the value returned, or the exception raised
Returns(v) == [status |-> "Ok", value |-> v]
Raises(e) == [status |-> e, value |-> PyNone]
NotCalled == Raises("none")
\* no id given to to_string
NoId == PyNone

\* Message.from_string(name).  For a name the class has, the code calls
\* cls.__getattribute__(name): cls is the class, so this is the unbound
\* object.__getattribute__ with name as its self and no attribute name, and
\* it raises TypeError.  For any other name the result is None.
FromString(r, name) ==
    IF name \in Names(r) THEN Raises("TypeError") ELSE Returns(PyNone)

\* Message.to_string(id): the name of the first attribute of cls.__dict__
\* whose value equals id, None if there is none.  The order of a dict is not
\* the order of the class body, so with two names of one value either may
\* come first: the set of the possible results.  (The other entries of
\* cls.__dict__, the methods and the docstring, equal no id.)
ToStringResults(r, id) ==
    IF \E n \in Names(r) : Table(r)[n] = id
    THEN {Returns(PyStr(n)) : n \in {m \in Names(r) : Table(r)[m] = id}}
    ELSE {Returns(PyNone)}

\* ------------------------------------------------------------------------
\* Transport
\* ------------------------------------------------------------------------
\* position of the first LF of w, 0 if there is none
FirstNewline(w) ==
    IF \E i \in 1..Len(w) : w[i] = LF
    THEN CHOOSE i \in 1..Len(w) : w[i] = LF /\ \A j \in 1..(i - 1) : w[j] # LF
    ELSE 0

\* readline that takes everything up to the last LF received
ReadLine_ToLastNewline(w) ==
    SubSeq(w, 1, CHOOSE i \in 0..Len(w) :
                     /\ i > 0 => w[i] = LF
                     /\ \A j \in (i + 1)..Len(w) : w[j] # LF)

\* conn.readline() on a port opened without a timeout: the bytes up to and
\* including the first LF (the call blocks until there is one)
ReadLine(w) == SubSeq(w, 1, FirstNewline(w))

\* w without its first n bytes
Drop(w, n) == SubSeq(w, n + 1, Len(w))

\* a well-formed frame as the device sends it
Frame(id, payload) == <<HEADER, id, SEP>> \o payload \o <<CR, LF>>

\* what the device may send in one piece: two well-formed frames, the two of
\* them back to back, a frame cut down to its header and a line feed, and a
\* stray byte
DeviceChunks ==
    { Frame(SW_VERSION, <<DATA>>), Frame(UNIT_SERIAL_NUM, <<DATA>>),
      Frame(UNIT_SERIAL_NUM, <<DATA>>) \o Frame(SW_VERSION, <<DATA>>),
      <<HEADER, LF>>, <<DATA>> }

\* ------------------------------------------------------------------------
\* The thread that runs the driver's operations
\* ------------------------------------------------------------------------
\* the operation in progress returns (e = "none") or raises e to the host;
\* its locals are gone
EndOperation(e, r) ==
    /\ op' = "none"
    /\ pc' = "idle"
    /\ exc' = e
    /\ result' = r
    /\ message' = None
    /\ wait' = 0
    /\ end' = 0
    /\ timeout_count' = 0
    /\ packet' = <<>>
    /\ reply' = NoReply
    /\ data' = None
    /\ preemptRequested' = FALSE

\* the host starts operation o
Start(o, first) ==
    /\ pc = "idle"
    /\ calls < MaxCalls
    /\ calls' = calls + 1
    /\ op' = o
    /\ pc' = first
    /\ exc' = "none"
    /\ result' = NoReply
    /\ UNCHANGED data

\* Socket.send(message): Command(message).serialize() written to the port
SocketSend(m) ==
    IF fault
    THEN /\ EndOperation("SerialException", NoReply)
         /\ UNCHANGED sent
    ELSE /\ sent' = Append(sent, m)
         /\ UNCHANGED <<op, exc, result, data, packet, reply, preemptRequested>>

CallOpen ==
    /\ Start("open", "open_connect")
    /\ UNCHANGED <<message, wait, end, timeout_count, packet, reply>>
    /\ UNCHANGED <<codecVars, hostVars, registryVars, socketVars, envVars, objVars, histVars>>

\* open(), lines 303-307: the Socket is created unless there is one; a port
\* that cannot be opened raises SonarNotFound
OpenConnect ==
    /\ pc = "open_connect"
    /\ \/ /\ conn # "None"
          /\ pc' = "open_init"
          /\ UNCHANGED <<conn, op, exc, result, data, message, wait, end, timeout_count,
                         packet, reply, preemptRequested>>
       \/ /\ conn = "None"
          /\ conn' = "open"
          /\ pc' = "open_init"
          /\ UNCHANGED <<op, exc, result, data, message, wait, end, timeout_count,
                         packet, reply, preemptRequested>>
       \/ /\ conn = "None"
          /\ EndOperation("SonarNotFound", NoReply)
          /\ UNCHANGED conn
    /\ UNCHANGED <<calls, initialized, preempted, handshakeDone, obtained, published, discarded, resends>>
    /\ UNCHANGED <<codecVars, hostVars, registryVars, socketVars, envVars>>

\* open(), lines 309-310
OpenInit ==
    /\ pc = "open_init"
    /\ initialized' = TRUE
    /\ pc' = "open_send"
    /\ UNCHANGED <<op, message, wait, end, timeout_count, packet, reply, exc, result, data, calls>>
    /\ UNCHANGED <<conn, preempted, histVars, codecVars, hostVars, registryVars, socketVars, envVars>>

\* open(), line 312: self.conn.send(Message.TRANSDUCER_FREQ)
OpenSend ==
    /\ pc = "open_send"
    /\ SocketSend(TRANSDUCER_FREQ)
    /\ IF fault
       THEN TRUE
       ELSE /\ pc' = "reply_scan"
            /\ UNCHANGED <<message, wait, end, timeout_count>>
    /\ UNCHANGED <<calls, objVars, handshakeDone, obtained, published, discarded, resends, codecVars, hostVars, registryVars, socketVars>>
    /\ UNCHANGED <<wire, fault, chunks, now, shutdown, eof>>

\* get_reply(), lines 232-233: one byte is read and compared with '#'
ReplyScanByte ==
    /\ pc = "reply_scan"
    /\ fault \/ wire # <<>>
    /\ IF fault
       THEN /\ EndOperation("SerialException", NoReply)
            /\ UNCHANGED wire
            /\ returned' = IF op = "get_reply"
                           THEN Append(returned, Raised("SerialException", <<>>))
                           ELSE returned
       ELSE /\ wire' = Tail(wire)
            /\ IF Head(wire) = HEADER
               THEN /\ packet' = <<HEADER>>
                    /\ pc' = "reply_line"
               ELSE UNCHANGED <<packet, pc>>
            /\ UNCHANGED <<op, message, wait, end, timeout_count, reply, exc, result, data,
                           preemptRequested, returned>>
    /\ UNCHANGED <<calls, objVars, handshakeDone, obtained, published, discarded, resends, codecVars, hostVars, registryVars>>
    /\ UNCHANGED <<garbage, frame1, frame2, sent, fault, chunks, now, shutdown, eof>>

\* get_reply(), lines 240-254: a line is read and appended, and the packet is
\* parsed.  PacketIncomplete keeps the loop reading; the Reply is returned;
\* any other exception leaves get_reply.  Inside get(), lines 389-391 catch
\* PacketCorrupted (and nothing else) and go round get's loop again.
ReplyReadLine ==
    /\ pc = "reply_line"
    /\ fault \/ FirstNewline(wire) > 0
    /\ IF fault
       THEN /\ EndOperation("SerialException", NoReply)
            /\ UNCHANGED wire
            /\ returned' = IF op = "get_reply"
                           THEN Append(returned, Raised("SerialException", packet))
                           ELSE returned
       ELSE LET line == ReadLine(wire)
                r == ReplyParse(packet \o line)
            IN  /\ wire' = Drop(wire, Len(line))
                /\ CASE r.status = "Ok" ->
                          /\ reply' = r
                          /\ packet' = packet \o line
                          /\ pc' = "reply_return"
                          /\ UNCHANGED <<op, message, wait, end, timeout_count, exc,
                                         result, data, preemptRequested, returned>>
                     [] r.status = "PacketIncomplete" ->
                          /\ packet' = packet \o line
                          /\ UNCHANGED <<op, pc, message, wait, end, timeout_count, reply,
                                         exc, result, data, preemptRequested, returned>>
                     [] r.status = "PacketCorrupted" /\ op \in {"get", "scan"} ->
                          /\ packet' = <<>>
                          /\ pc' = "get_loop"
                          /\ UNCHANGED <<op, message, wait, end, timeout_count, reply,
                                         exc, result, data, preemptRequested, returned>>
                     [] OTHER ->
                          /\ EndOperation(r.status, NoReply)
                          /\ returned' = IF op = "get_reply"
                                         THEN Append(returned, r)
                                         ELSE returned
    /\ UNCHANGED <<calls, objVars, handshakeDone, obtained, published, discarded, resends, codecVars, hostVars, registryVars>>
    /\ UNCHANGED <<garbage, frame1, frame2, sent, fault, chunks, now, shutdown, eof>>

\* open(), line 313: get_reply has returned, and open returns
OpenReturn ==
    /\ pc = "reply_return"
    /\ op = "open"
    /\ EndOperation("none", NoReply)
    /\ handshakeDone' = TRUE
    /\ UNCHANGED <<calls, objVars, resends, obtained, published, discarded, codecVars, hostVars, registryVars, socketVars, envVars>>

\* the host calls conn.get_reply() directly
CallGetReply ==
    /\ Start("get_reply", "reply_scan")
    /\ Len(returned) < 2
    /\ UNCHANGED <<message, wait, end, timeout_count, packet, reply>>
    /\ UNCHANGED <<codecVars, hostVars, registryVars, socketVars, envVars, objVars, histVars>>

\* get_reply(), line 254, called by the host: the Reply is returned
SocketReturn ==
    /\ pc = "reply_return"
    /\ op = "get_reply"
    /\ returned' = Append(returned, reply)
    /\ EndOperation("none", reply)
    /\ UNCHANGED <<calls, objVars, handshakeDone, obtained, published, discarded, resends, codecVars, hostVars, registryVars, envVars>>
    /\ UNCHANGED <<garbage, frame1, frame2>>

CallGet(m, w) ==
    /\ Start("get", "get_check")
    /\ message' = m
    /\ wait' = w
    /\ UNCHANGED <<end, timeout_count, packet, reply>>
    /\ UNCHANGED <<codecVars, hostVars, registryVars, socketVars, envVars, objVars, histVars>>

\* get(), lines 366-367
GetCheck ==
    /\ pc = "get_check"
    /\ IF ~initialized
       THEN EndOperation("SonarNotConfigured", NoReply)
       ELSE /\ pc' = "get_deadline"
            /\ UNCHANGED <<op, message, wait, end, timeout_count, packet, reply, exc,
                           result, data, preemptRequested>>
    /\ UNCHANGED <<calls, objVars, handshakeDone, obtained, published, discarded, resends, codecVars, hostVars, registryVars, socketVars, envVars>>

\* get(), lines 369-374: end = now + wait
GetDeadline ==
    /\ pc = "get_deadline"
    /\ end' = now + wait
    /\ pc' = "get_loop"
    /\ UNCHANGED <<op, message, wait, timeout_count, packet, reply, exc, result, data, calls>>
    /\ UNCHANGED <<objVars, histVars, codecVars, hostVars, registryVars, socketVars, envVars>>

\* scan(), lines 345-353: the handler of TimeoutError
ScanOnTimeout ==
    IF timeout_count + 1 >= MAX_TIMEOUT_COUNT
    THEN /\ SocketSend(SINGLE_MEASURE)
         /\ IF fault
            THEN UNCHANGED resends
            ELSE /\ resends' = resends + 1
                 /\ timeout_count' = 0
                 /\ pc' = "scan_top"
                 /\ message' = None
                 /\ wait' = 0
                 /\ end' = 0
    ELSE /\ timeout_count' = timeout_count + 1
         /\ pc' = "scan_top"
         /\ message' = None
         /\ wait' = 0
         /\ end' = 0
         /\ UNCHANGED <<op, exc, result, data, packet, reply, preemptRequested, sent, resends>>

\* get(), line 377 and lines 392-394: the loop test; TimeoutError once it fails
GetLoop ==
    /\ pc = "get_loop"
    /\ IF message = None \/ now < end
       THEN /\ pc' = "reply_scan"
            /\ UNCHANGED <<op, message, wait, end, timeout_count, packet, reply, exc,
                           result, data, preemptRequested, sent, resends>>
       ELSE IF op = "scan"
            THEN ScanOnTimeout
            ELSE /\ EndOperation("TimeoutError", NoReply)
                 /\ UNCHANGED <<sent, resends>>
    /\ UNCHANGED <<calls, objVars, handshakeDone, obtained, published, discarded, codecVars, hostVars, registryVars, socketVars>>
    /\ UNCHANGED <<wire, fault, chunks, now, shutdown, eof>>

\* get() that returns whatever Reply it receives
IdMatches_Any(m, r) == TRUE

\* get(), lines 381-384: the Reply is the one awaited when no id is expected
\* or its id is the expected one
IdMatches(m, r) == m = None \/ r.id = m

\* get(), lines 379-388: get_reply has returned.  The Reply is returned when
\* no id is expected or its id is the expected one, else the loop goes on
\* and the Reply is dropped.  Back in scan(), lines 343-344: data =
\* reply.payload, timeout_count = 0; line 354 is a comment, so data goes
\* nowhere and the loop comes round.
GetReceive ==
    /\ pc = "reply_return"
    /\ op \in {"get", "scan"}
    /\ IF IdMatches(message, reply)
       THEN /\ IF op = "scan"
               THEN /\ data' = reply.payload
                    /\ obtained' = Append(obtained, reply.payload)
                    /\ timeout_count' = 0
                    /\ pc' = "scan_top"
                    /\ message' = None
                    /\ wait' = 0
                    /\ end' = 0
                    /\ packet' = <<>>
                    /\ reply' = NoReply
                    /\ UNCHANGED <<op, exc, result, preemptRequested>>
               ELSE /\ EndOperation("none", reply)
                    /\ UNCHANGED obtained
            /\ UNCHANGED discarded
       ELSE /\ pc' = "get_loop"
            /\ packet' = <<>>
            /\ reply' = NoReply
            /\ discarded' = discarded + 1
            /\ UNCHANGED <<op, message, wait, end, timeout_count, exc, result, data,
                           preemptRequested, obtained>>
    /\ UNCHANGED <<calls, objVars, handshakeDone, published, resends>>
    /\ UNCHANGED <<codecVars, hostVars, registryVars, socketVars, envVars>>

CallScan ==
    /\ Start("scan", "scan_check")
    /\ UNCHANGED <<message, wait, end, timeout_count, packet, reply>>
    /\ UNCHANGED <<codecVars, hostVars, registryVars, socketVars, envVars, objVars, histVars>>

\* scan(), lines 325-326
ScanCheck ==
    /\ pc = "scan_check"
    /\ IF ~initialized
       THEN EndOperation("SonarNotConfigured", NoReply)
       ELSE /\ pc' = "scan_init"
            /\ UNCHANGED <<op, message, wait, end, timeout_count, packet, reply, exc,
                           result, data, preemptRequested>>
    /\ UNCHANGED <<calls, objVars, handshakeDone, obtained, published, discarded, resends, codecVars, hostVars, registryVars, socketVars, envVars>>

\* scan(), lines 328-332: timeout_count = 0, self.preempted = False
ScanInit ==
    /\ pc = "scan_init"
    /\ timeout_count' = 0
    /\ preempted' = FALSE
    /\ pc' = "scan_top"
    /\ UNCHANGED <<op, message, wait, end, packet, reply, exc, result, data, calls>>
    /\ UNCHANGED <<conn, initialized, histVars, codecVars, hostVars, registryVars, socketVars, envVars>>

\* scan(), lines 333-337: the loop test, then the shutdown test
ScanTop ==
    /\ pc = "scan_top"
    /\ IF preempted
       THEN /\ EndOperation("none", NoReply)
            /\ UNCHANGED preempted
       ELSE IF shutdown
            THEN /\ preempted' = TRUE
                 /\ EndOperation("none", NoReply)
            ELSE /\ pc' = "scan_send"
                 /\ UNCHANGED <<op, message, wait, end, timeout_count, packet, reply,
                                exc, result, data, preemptRequested, preempted>>
    /\ UNCHANGED <<calls, conn, initialized, handshakeDone, obtained, published, discarded, resends>>
    /\ UNCHANGED <<codecVars, hostVars, registryVars, socketVars, envVars>>

\* scan(), lines 339-343: the request is sent and get(None, wait = 1) called
ScanSend ==
    /\ pc = "scan_send"
    /\ SocketSend(SINGLE_MEASURE)
    /\ IF fault
       THEN TRUE
       ELSE /\ pc' = "get_check"
            /\ message' = None
            /\ wait' = ScanWait
            /\ UNCHANGED <<end, timeout_count>>
    /\ UNCHANGED <<calls, objVars, handshakeDone, obtained, published, discarded, resends, codecVars, hostVars, registryVars, socketVars>>
    /\ UNCHANGED <<wire, fault, chunks, now, shutdown, eof>>

\* preempt(), called from any thread: self.preempted = True
Preempt ==
    /\ preempted' = TRUE
    /\ preemptRequested' = (preemptRequested \/ op = "scan")
    /\ UNCHANGED <<conn, initialized, handshakeDone, obtained, published, discarded, resends>>
    /\ UNCHANGED <<codecVars, hostVars, registryVars, socketVars, envVars, threadVars>>

\* ------------------------------------------------------------------------
\* The scoped use `with VA500(port, baudrate) as va500_altimeter:`
\* ------------------------------------------------------------------------
\* line 412 and __enter__, line 284: the with statement calls __enter__,
\* which calls open()
WithEnter ==
    /\ scope = "out"
    /\ Start("open", "open_connect")
    /\ scope' = "enter"
    /\ UNCHANGED <<message, wait, end, timeout_count, packet, reply>>
    /\ UNCHANGED <<codecVars, registryVars, socketVars, envVars, objVars, histVars>>

\* __enter__, lines 284-285: open() has ended.  When it returned, __enter__
\* returns self and the body starts; when it raised, the exception leaves
\* __enter__ and the with statement, whose __exit__ runs only after an
\* __enter__ that returned.
WithEntered ==
    /\ scope = "enter"
    /\ pc = "idle"
    /\ scope' = IF exc = "none" THEN "body" ELSE "left"
    /\ UNCHANGED <<codecVars, registryVars, socketVars, envVars, objVars, threadVars,
                   histVars>>

\* the body of the with statement calls scan()
BodyScan ==
    /\ scope = "body"
    /\ CallScan

\* the body of the with statement calls get(m, w)
BodyGet(m, w) ==
    /\ scope = "body"
    /\ CallGet(m, w)

\* __exit__, lines 295-296, and close(), line 317: control leaves the body,
\* by its end or by an exception of the operation it called, and the
\* connection is closed
WithExit ==
    /\ scope = "body"
    /\ pc = "idle"
    /\ conn' = "closed"
    /\ scope' = "left"
    /\ UNCHANGED <<initialized, preempted>>
    /\ UNCHANGED <<codecVars, registryVars, socketVars, envVars, threadVars, histVars>>

\* ------------------------------------------------------------------------
\* Environment
\* ------------------------------------------------------------------------
\* the device sends a chunk of bytes
DeviceSend(c) ==
    /\ conn = "open"
    /\ ~fault
    /\ ~eof
    /\ chunks < MaxChunks
    /\ chunks' = chunks + 1
    /\ wire' = wire \o c
    /\ UNCHANGED <<sent, fault, now, shutdown, eof>>
    /\ UNCHANGED <<codecVars, hostVars, registryVars, socketVars, objVars, threadVars, histVars>>

\* the port fails (the device is unplugged)
TransportFault ==
    /\ conn = "open"
    /\ ~fault
    /\ fault' = TRUE
    /\ UNCHANGED <<wire, sent, chunks, now, shutdown, eof>>
    /\ UNCHANGED <<codecVars, hostVars, registryVars, socketVars, objVars, threadVars, histVars>>

\* the stream ends: the device sends nothing more.  A read() or a readline()
\* that has used up the bytes received gets no byte from then on: the port,
\* opened without a timeout, keeps it waiting, and a port that returned the
\* empty string instead would send the loops of get_reply round again
\* (lines 232 and 240-251 have no test for it) with nothing changed.  A port
\* that reports the end as an error is TransportFault.
EndOfStream ==
    /\ conn = "open"
    /\ ~eof
    /\ eof' = TRUE
    /\ UNCHANGED <<wire, sent, fault, chunks, now, shutdown>>
    /\ UNCHANGED <<codecVars, hostVars, registryVars, socketVars, objVars, threadVars, histVars>>

\* time passes.  The code reads the clock only to compare it with the deadline
\* of a get() in progress, so the clock is followed up to MaxTime and, beyond
\* it, for as long as a deadline is still ahead.
Tick ==
    /\ now < MaxTime \/ now < end
    /\ now' = now + 1
    /\ UNCHANGED <<wire, sent, fault, chunks, shutdown, eof>>
    /\ UNCHANGED <<codecVars, hostVars, registryVars, socketVars, objVars, threadVars, histVars>>

\* ROS shuts down
Shutdown ==
    /\ ~shutdown
    /\ shutdown' = TRUE
    /\ UNCHANGED <<wire, sent, fault, chunks, now, eof>>
    /\ UNCHANGED <<codecVars, hostVars, registryVars, socketVars, objVars, threadVars, histVars>>

\* ------------------------------------------------------------------------
\* Specifications
\* ------------------------------------------------------------------------
IdleCodec ==
    /\ cmd = CommandInit(SW_VERSION, <<>>)
    /\ cut = 0
    /\ frame = <<>>
    /\ bitstream = <<>>
    /\ parsed = NoReply
    /\ parsedFrame = NoReply
    /\ request = NoRequest

\* no lookup made in a registry
IdleRegistry ==
    /\ registry = "altimeter"
    /\ lookupName = "SW_VERSION"
    /\ lookupId = NoId
    /\ fromResult = NotCalled
    /\ toResult = NotCalled

IdleSocket ==
    /\ garbage = <<>>
    /\ frame1 = <<>>
    /\ frame2 = <<>>
    /\ returned = <<>>

IdleThread ==
    /\ op = "none"
    /\ pc = "idle"
    /\ message = None
    /\ wait = 0
    /\ end = 0
    /\ timeout_count = 0
    /\ packet = <<>>
    /\ reply = NoReply
    /\ exc = "none"
    /\ result = NoReply
    /\ data = None
    /\ calls = 0
    /\ scope = "out"

\* VA500.__init__, lines 274-278, on a quiet port
IdleDriver ==
    /\ conn = "None"
    /\ initialized = FALSE
    /\ preempted = FALSE
    /\ wire = <<>>
    /\ sent = <<>>
    /\ fault = FALSE
    /\ chunks = 0
    /\ now = 0
    /\ shutdown = FALSE
    /\ eof = FALSE
    /\ handshakeDone = FALSE
    /\ preemptRequested = FALSE
    /\ resends = 0
    /\ obtained = <<>>
    /\ published = <<>>
    /\ discarded = 0
    /\ IdleThread

\* --- the driver with its environment
Init == IdleCodec /\ IdleSocket /\ IdleDriver /\ IdleRegistry

Thread ==
    \/ OpenConnect \/ OpenInit \/ OpenSend \/ OpenReturn
    \/ ReplyScanByte \/ ReplyReadLine
    \/ GetCheck \/ GetDeadline \/ GetLoop \/ GetReceive
    \/ ScanCheck \/ ScanInit \/ ScanTop \/ ScanSend

Host ==
    \/ CallOpen
    \/ CallScan
    \/ \E m \in {None, SW_VERSION}, w \in {ScanWait, DefaultWait} : CallGet(m, w)

Environment ==
    \/ \E c \in DeviceChunks : DeviceSend(c)
    \/ TransportFault
    \/ Tick
    \/ Shutdown
    \/ Preempt

Next == Thread \/ Host \/ Environment

Spec == Init /\ [][Next]_vars

\* the thread runs whenever it is not blocked, and time passes
LiveSpec == Spec /\ WF_vars(Thread) /\ WF_vars(Tick)

\* --- the driver used through the with statement
HostWith ==
    \/ WithEnter
    \/ WithEntered
    \/ BodyScan
    \/ \E m \in {None, SW_VERSION}, w \in {ScanWait, DefaultWait} : BodyGet(m, w)
    \/ WithExit

NextWith == Thread \/ HostWith \/ Environment

SpecWith == Init /\ [][NextWith]_vars

\* --- Reply.parse on arbitrary buffers
InitParse ==
    /\ bitstream \in Buffers
    /\ parsed = NoReply
    /\ cmd = CommandInit(SW_VERSION, <<>>)
    /\ cut = 0
    /\ frame = <<>>
    /\ parsedFrame = NoReply
    /\ request = NoRequest
    /\ IdleSocket
    /\ IdleDriver
    /\ IdleRegistry

\* Reply(bitstream) on the buffer under test
ParseBuffer ==
    /\ parsed = NoReply
    /\ parsed' = ReplyParse(bitstream)
    /\ UNCHANGED <<cmd, cut, frame, bitstream, parsedFrame, request>>
    /\ UNCHANGED <<socketVars, envVars, objVars, threadVars, histVars, hostVars,
                   registryVars>>

NextParse == ParseBuffer

SpecParse == InitParse /\ [][NextParse]_vars

\* --- Command.serialize followed by Reply.parse
InitCodec ==
    /\ cmd \in Commands
    /\ cut \in 0..(MaxPayload + 4)
    /\ cut < Len(CommandSerialize(cmd))
    /\ frame = <<>>
    /\ bitstream = <<>>
    /\ parsed = NoReply
    /\ parsedFrame = NoReply
    /\ request = NoRequest
    /\ IdleSocket
    /\ IdleDriver
    /\ IdleRegistry

\* frame = cmd.serialize()
Serialize ==
    /\ frame = <<>>
    /\ frame' = CommandSerialize(cmd)
    /\ UNCHANGED <<cmd, cut, bitstream, parsed, parsedFrame, request>>
    /\ UNCHANGED <<socketVars, envVars, objVars, threadVars, histVars, hostVars,
                   registryVars>>

\* Reply(frame[:cut]): a proper prefix of the frame
ParsePrefix ==
    /\ frame # <<>>
    /\ parsed = NoReply
    /\ bitstream' = SubSeq(frame, 1, cut)
    /\ parsed' = ReplyParse(SubSeq(frame, 1, cut))
    /\ UNCHANGED <<cmd, cut, frame, parsedFrame, request>>
    /\ UNCHANGED <<socketVars, envVars, objVars, threadVars, histVars, hostVars,
                   registryVars>>

\* Reply(frame): the prefix with the remaining bytes appended
ParseFrame ==
    /\ frame # <<>>
    /\ parsed # NoReply
    /\ parsedFrame = NoReply
    /\ parsedFrame' = ReplyParse(frame)
    /\ UNCHANGED <<cmd, cut, frame, bitstream, parsed, request>>
    /\ UNCHANGED <<socketVars, envVars, objVars, threadVars, histVars, hostVars,
                   registryVars>>

NextCodec == Serialize \/ ParsePrefix \/ ParseFrame

SpecCodec == InitCodec /\ [][NextCodec]_vars

\* --- Command(...) followed by serialize, for any payload
Requests ==
    {[id |-> i, str |-> FALSE, payload |-> p] :
         i \in CommandIds, p \in SeqsUpTo(ByteValues, MaxPayload)}
    \cup {[id |-> SINGLE_MEASURE, str |-> TRUE, payload |-> p] :
              p \in SeqsUpTo(ByteValues, MaxPayload)}

\* no Command constructed
NoCommand == CommandInit(None, <<>>)

InitEncode ==
    /\ request \in Requests
    /\ cmd = NoCommand
    /\ cut = 0
    /\ frame = <<>>
    /\ bitstream = <<>>
    /\ parsed = NoReply
    /\ parsedFrame = NoReply
    /\ IdleSocket
    /\ IdleDriver
    /\ IdleRegistry

\* cmd = Command(request.id, request.payload), as Socket.send does at line 220
Construct ==
    /\ cmd = NoCommand
    /\ cmd' = IF request.str
              THEN CommandInitStr(request.id, request.payload)
              ELSE CommandInit(request.id, request.payload)
    /\ UNCHANGED <<cut, frame, bitstream, parsed, parsedFrame, request>>
    /\ UNCHANGED <<socketVars, envVars, objVars, threadVars, histVars, hostVars,
                   registryVars>>

\* frame = cmd.serialize(), line 222
SerializeCommand ==
    /\ cmd # NoCommand
    /\ Serialize

NextEncode == Construct \/ SerializeCommand

SpecEncode == InitEncode /\ [][NextEncode]_vars

\* --- two get_reply calls on the stream garbage + frame1 + frame2
GarbageBytes == {HEADER, LF, DATA}
Garbages == SeqsUpTo(GarbageBytes, MaxGarbage)
FramePayloads == SeqsUpTo(GarbageBytes, MaxFramePayload)
Frames == {Frame(i, p) : i \in CommandIds, p \in FramePayloads}

InitSocket ==
    /\ garbage \in Garbages
    /\ frame1 \in Frames
    /\ frame2 \in Frames
    /\ returned = <<>>
    /\ IdleCodec
    /\ IdleRegistry
    /\ conn = "open"
    /\ initialized = FALSE
    /\ preempted = FALSE
    /\ wire = garbage \o frame1 \o frame2
    /\ sent = <<>>
    /\ fault = FALSE
    /\ chunks = 0
    /\ now = 0
    /\ shutdown = FALSE
    /\ eof = FALSE
    /\ handshakeDone = FALSE
    /\ preemptRequested = FALSE
    /\ resends = 0
    /\ obtained = <<>>
    /\ published = <<>>
    /\ discarded = 0
    /\ IdleThread

NextSocket == CallGetReply \/ ReplyScanByte \/ ReplyReadLine \/ SocketReturn

SpecSocket == InitSocket /\ [][NextSocket]_vars

\* --- lookups in the two Message registries
InitRegistry ==
    /\ registry \in Registries
    /\ lookupName \in Names(registry) \cup {"UNKNOWN"}
    /\ lookupId \in Values(registry) \cup {PyNone}
    /\ fromResult = NotCalled
    /\ toResult = NotCalled
    /\ IdleCodec
    /\ IdleSocket
    /\ IdleDriver

\* fromResult = Message.from_string(lookupName)
LookupFromString ==
    /\ fromResult = NotCalled
    /\ fromResult' = FromString(registry, lookupName)
    /\ UNCHANGED <<registry, lookupName, lookupId, toResult>>
    /\ UNCHANGED <<codecVars, socketVars, envVars, objVars, threadVars, histVars, hostVars>>

\* toResult = Message.to_string(lookupId)
LookupToString ==
    /\ toResult = NotCalled
    /\ toResult' \in ToStringResults(registry, lookupId)
    /\ UNCHANGED <<registry, lookupName, lookupId, fromResult>>
    /\ UNCHANGED <<codecVars, socketVars, envVars, objVars, threadVars, histVars, hostVars>>

NextRegistry == LookupFromString \/ LookupToString

SpecRegistry == InitRegistry /\ [][NextRegistry]_vars

\* --- get_reply calls on a stream that ends or fails
InitStream ==
    /\ garbage \in Garbages
    /\ frame1 \in Frames
    /\ frame2 = <<>>
    /\ returned = <<>>
    /\ IdleCodec
    /\ IdleRegistry
    /\ conn = "open"
    /\ initialized = FALSE
    /\ preempted = FALSE
    /\ wire = garbage \o frame1
    /\ sent = <<>>
    /\ fault = FALSE
    /\ chunks = 0
    /\ now = 0
    /\ shutdown = FALSE
    /\ eof = FALSE
    /\ handshakeDone = FALSE
    /\ preemptRequested = FALSE
    /\ resends = 0
    /\ obtained = <<>>
    /\ published = <<>>
    /\ discarded = 0
    /\ IdleThread

\* the thread inside get_reply
SocketThread == ReplyScanByte \/ ReplyReadLine \/ SocketReturn

NextStream == CallGetReply \/ SocketThread \/ TransportFault \/ EndOfStream

SpecStream == InitStream /\ [][NextStream]_vars

\* the thread runs whenever it is not kept waiting by a read
LiveStream == SpecStream /\ WF_vars(SocketThread)

\* the bytes a parsed payload holds
PayloadOf(r) == IF r.payload = None THEN <<>> ELSE <<r.payload>>

\* ------------------------------------------------------------------------
\* Claims
\* ------------------------------------------------------------------------
NoHeaderIn(b) == \A i \in 1..Len(b) : b[i] # HEADER
\* the only LF of frame f is its last byte
NoInnerNewline(f) == \A i \in 1..(Len(f) - 1) : f[i] # LF

\* the i-th get_reply call returned a Reply parsed from exactly frame1 (i = 1)
\* or frame2 (i = 2)
ReturnedFrames ==
    \A i \in 1..Len(returned) :
        /\ returned[i].status = "Ok"
        /\ returned[i].bitstream = (IF i = 1 THEN frame1 ELSE frame2)

UpToFirstNewline(f) ==
    SubSeq(f, 1, CHOOSE i \in 1..Len(f) : f[i] = LF /\ \A j \in 1..(i - 1) : f[j] # LF)

C2_RoundTrip ==
    parsedFrame # NoReply =>
        /\ parsedFrame.status = "Ok"
        /\ parsedFrame.id = cmd.id
        /\ PayloadOf(parsedFrame) = cmd.payload

\* C3: Reply.parse raises PacketIncomplete on every proper prefix of a
\* well-formed frame, and succeeds with the id and payload of the frame once
\* the remaining bytes are appended.
C3_IncompleteThenComplete ==
    parsed # NoReply =>
        /\ parsed.status = "PacketIncomplete"
        /\ parsedFrame # NoReply =>
               /\ parsedFrame.status = "Ok"
               /\ parsedFrame.id = cmd.id
               /\ PayloadOf(parsedFrame) = cmd.payload

\* C4: a buffer that ends with the terminator and does not start with 0x23
\* makes Reply.parse raise PacketCorrupted.
C4_WrongHeaderCorrupted ==
    (/\ parsed # NoReply
     /\ Len(bitstream) >= 2
     /\ SubSeq(bitstream, Len(bitstream) - 1, Len(bitstream)) = <<CR, LF>>
     /\ bitstream[1] # HEADER)
        => parsed.status = "PacketCorrupted"

C4_Witness ==
    /\ parsed.status = "PacketCorrupted"
    /\ bitstream = <<DATA, CR, LF>>


\* C5: get(X, wait) with X not None never raises TimeoutError before the
\* deadline, and it ends (any ending is accepted here: TimeoutError, a Reply
\* with id X, another exception) whatever the transport does.
C5_GetTimesOut ==
    /\ [][(exc' = "TimeoutError" /\ exc # "TimeoutError") => now >= end]_vars
    /\ ((op = "get" /\ message # None) ~> (op # "get"))

\* C6: once preempt() has been called during a scan(), that scan() returns.
C6_PreemptEndsScan == (op = "scan" /\ preemptRequested) ~> (op # "scan")

\* scan() is inside its call of get(None, wait = 1)
ScanAwaits == op = "scan" /\ pc \in {"get_check", "get_deadline", "get_loop",
                                     "reply_scan", "reply_line", "reply_return"}

\* C7: every await of scan() ends in one of the three ways of the claim: with
\* a reply (the counter is reset to 0), with a TimeoutError that is counted
\* (the counter goes from k to k + 1, no resend), or with the 5th TimeoutError
\* in a row (the resend is written and the counter is reset to 0); scan() may
\* also be left by an exception.
C7_ResendAfterFiveTimeouts ==
    \A k \in 0..(MAX_TIMEOUT_COUNT - 1) : \A n \in 0..1 :
        (ScanAwaits /\ timeout_count = k /\ resends = n)
            ~> \/ op # "scan"
               \/ /\ pc = "scan_top"
                  /\ \/ timeout_count = 0 /\ resends = n
                     \/ timeout_count = k + 1 /\ resends = n /\ k + 1 < MAX_TIMEOUT_COUNT
                     \/ timeout_count = 0 /\ resends = n + 1 /\ k + 1 = MAX_TIMEOUT_COUNT

\* C8: open() always terminates, by returning or by raising.
C8_OpenTerminates == (op = "open") ~> (op # "open")

\* C9: initialized is true only if some open() has completed its handshake.
C9_InitializedOnlyAfterHandshake == initialized => handshakeDone

\* C10: while no open() has succeeded, scan() and get() do not get past their
\* test of initialized, and no single-measurement request is written.
C10_NotConfiguredGuard ==
    ~handshakeDone =>
        /\ op \in {"scan", "get"} => pc \in {"scan_check", "get_check"}
        /\ \A i \in 1..Len(sent) : sent[i] # SINGLE_MEASURE

\* C11: once control has left the with statement, by whatever path, a
\* connection that was acquired has been closed.
C11_ClosedOnEveryExit == scope = "left" => conn # "open"

\* C12: an open() or a scan() that raises, raises SonarNotFound,
\* SonarNotConfigured or the transport's I/O failure, and nothing else.
C12_OnlyUnrecoverableEscape ==
    [][(op \in {"open", "scan"} /\ op' = "none")
          => exc' \in {"none", "SonarNotFound", "SonarNotConfigured", "SerialException"}]_vars

\* C13: when scan() is about to send its next single-measurement request,
\* the payload of every reply it has obtained has been handed to its caller.
C13_PayloadDelivered ==
    (op = "scan" /\ pc = "scan_send") => published = obtained

\* C14: for every name of a registry, from_string(name) is an id, and
\* from_string of whatever to_string returns for that id is the same id.
C14_IdentifierRoundTrip ==
    (fromResult # NotCalled /\ lookupName \in Names(registry)) =>
        /\ fromResult.status = "Ok"
        /\ \A t \in ToStringResults(registry, fromResult.value) :
               /\ t.value # PyNone
               /\ FromString(registry, t.value[2]) = fromResult

\* C15: in each registry no two names have the same value, so that
\* to_string, given the value a name has in the registry (the id from_string
\* is to return for it), returns that name.
C15_OneToOne ==
    (/\ toResult # NotCalled
     /\ lookupName \in Names(registry)
     /\ lookupId = Table(registry)[lookupName])
        => toResult = Returns(PyStr(lookupName))

\* C16: serialize returns bytes only for a payload without the terminator
\* CR LF, and the bytes are 0x23, the id, 0x3B, the payload, 0x0D, 0x0A.
C16_SerializeRejectsTerminator ==
    frame # <<>> =>
        /\ ~HasTerminator(request.payload)
        /\ frame = <<HEADER, request.id, SEP>> \o request.payload \o <<CR, LF>>

\* C17: a get(X, wait) with X not None returns only a Reply whose id is X
\* and never raises PacketCorrupted; a Reply it drops for its id is gone (it
\* is not put back for a later read) and get() goes round its loop again.
C17_GetReturnsExpectedId ==
    /\ [][(op = "get" /\ message # None /\ op' = "none")
             => /\ exc' # "PacketCorrupted"
                /\ exc' = "none" => (result'.status = "Ok" /\ result'.id = message)]_vars
    /\ [][(discarded' # discarded)
             => /\ op' = "get" /\ pc' = "get_loop"
                /\ reply' = NoReply /\ packet' = <<>>
                /\ wire' = wire]_vars

\* a get(SW_VERSION) has dropped a Reply with another id and returned one
\* with id SW_VERSION
C17_Witness ==
    /\ op = "none"
    /\ exc = "none"
    /\ result.status = "Ok"
    /\ result.id = SW_VERSION
    /\ discarded >= 1

\* C18: an await of scan() is bounded by its deadline: once the deadline has
\* passed, the loop of the await does not start another receive (it ends with
\* TimeoutError, which scan() handles).
C18_ScanAwaitBounded ==
    [][(op = "scan" /\ pc = "get_loop" /\ now >= end) => pc' # "reply_scan"]_vars

\* get_reply is in a read that the stream cannot serve: the stream has ended
\* and holds no byte for read(), no line for readline()
ReadAtEndOfStream ==
    /\ op = "get_reply"
    /\ eof
    /\ \/ pc = "reply_scan" /\ wire = <<>>
       \/ pc = "reply_line" /\ FirstNewline(wire) = 0

\* get_reply is in a read on a port that has failed
ReadOnFailedPort == op = "get_reply" /\ pc \in {"reply_scan", "reply_line"} /\ fault

\* C19: a get_reply whose read meets the end of the stream or a failed port
\* ends by raising the transport's failure.
C19_EndOfStreamPropagates ==
    (ReadAtEndOfStream \/ ReadOnFailedPort) ~> (op = "none" /\ exc = "SerialException")

\* C20: once preempt() has been called during a scan(), preempted is true
\* for as long as that scan() runs: no step of the scan sets it back to
\* false, and a further preempt() leaves it true.
C20_PreemptSticks ==
    /\ []((op = "scan" /\ preemptRequested) => preempted)
    /\ [][(op = "scan" /\ preemptRequested /\ preempted /\ op' = "scan") => preempted']_vars

====
